---- MODULE Spec2Model ----
(***************************************************************************)
(* Model of src/app.py (AutoPrice Expert): artifact loading, the           *)
(* required-field check of main, and the inference pipeline                 *)
(* prepare_features_for_model -> predict_car_price -> result display.       *)
(*                                                                         *)
(* Text is modelled as a sequence of Unicode code points, so that str(),    *)
(* upper(), replace(), the displacement regex and the numeric parsers are   *)
(* computed as Python computes them.  Dictionary keys written in Cyrillic   *)
(* in the source are spelled in Latin letters here (keys are only compared):*)
(*   'Руль' -> "Rul", 'ПТС' -> "PTS", 'Привод' -> "Privod",                  *)
(*   'Владельцы' -> "Vladeltsy", 'Комплектация' -> "Komplektatsiya",         *)
(*   'Владение' -> "Vladenie".                                               *)
(***************************************************************************)
EXTENDS Integers, Sequences, FiniteSets, TLC

VARIABLES
    pc,             \* position of the script: see the actions
    files,          \* the models/ directory: status of the three artifact files
    artifacts,      \* what the artifact files hold (encoders, feature names)
    VALUE_MAPPINGS, \* module global of app.py:23
    model_data,     \* result of load_model_and_encoders (cached bundle) or NoBundle
    args,           \* the widget values handed to create_car_features_dict
    car_features,   \* the caller's attribute record
    prepared,       \* prepare_features_for_model's result (or NoneDict)
    input_df,       \* the one-row DataFrame of predict_car_price
    raw,            \* model.predict(input_df)[0]
    result,         \* predict_car_price's return value
    errors,         \* st.error calls of the current run, in order
    shown,          \* what main displays for the request
    calls,          \* functions invoked for the current request
    failed,         \* stage of the current request that raised, or "none"
    served          \* requests handled in this run

vars == <<pc, files, artifacts, VALUE_MAPPINGS, model_data, args, car_features,
          prepared, input_df, raw, result, errors, shown, calls, failed,
          served>>

-----------------------------------------------------------------------------
(* Text literals of app.py, as code points.                                *)

Map_vehicleTransmission ==
       (<<1072, 1074, 1090, 1086, 1084, 1072, 1090, 1080, 1095, 1077, 1089, 1082, 1072, 1103>> :> <<65, 85, 84, 79, 77, 65, 84, 73, 67>>)  \* 'автоматическая': 'AUTOMATIC'
    @@ (<<1084, 1077, 1093, 1072, 1085, 1080, 1095, 1077, 1089, 1082, 1072, 1103>> :> <<77, 69, 67, 72, 65, 78, 73, 67, 65, 76>>)  \* 'механическая': 'MECHANICAL'
    @@ (<<1088, 1086, 1073, 1086, 1090>> :> <<82, 79, 66, 79, 84>>)  \* 'робот': 'ROBOT'
    @@ (<<1074, 1072, 1088, 1080, 1072, 1090, 1086, 1088>> :> <<86, 65, 82, 73, 65, 84, 79, 82>>)  \* 'вариатор': 'VARIATOR'

Map_Rul ==
       (<<1051, 1077, 1074, 1099, 1081>> :> <<76, 69, 70, 84>>)  \* 'Левый': 'LEFT'
    @@ (<<1055, 1088, 1072, 1074, 1099, 1081>> :> <<82, 73, 71, 72, 84>>)  \* 'Правый': 'RIGHT'

Map_PTS ==
       (<<1054, 1088, 1080, 1075, 1080, 1085, 1072, 1083>> :> <<79, 82, 73, 71, 73, 78, 65, 76>>)  \* 'Оригинал': 'ORIGINAL'
    @@ (<<1044, 1091, 1073, 1083, 1080, 1082, 1072, 1090>> :> <<68, 85, 80, 76, 73, 67, 65, 84, 69>>)  \* 'Дубликат': 'DUPLICATE'

Map_color ==
       (<<1095, 1077, 1088, 1085, 1099, 1081>> :> <<48, 52, 48, 48, 48, 49>>)  \* 'черный': '040001'
    @@ (<<1073, 1077, 1083, 1099, 1081>> :> <<70, 70, 70, 70, 70, 70>>)  \* 'белый': 'FFFFFF'
    @@ (<<1089, 1077, 1088, 1077, 1073, 1088, 1080, 1089, 1090, 1099, 1081>> :> <<67, 48, 67, 48, 67, 48>>)  \* 'серебристый': 'C0C0C0'
    @@ (<<1089, 1077, 1088, 1099, 1081>> :> <<56, 48, 56, 48, 56, 48>>)  \* 'серый': '808080'
    @@ (<<1089, 1080, 1085, 1080, 1081>> :> <<48, 48, 48, 48, 70, 70>>)  \* 'синий': '0000FF'
    @@ (<<1082, 1088, 1072, 1089, 1085, 1099, 1081>> :> <<70, 70, 48, 48, 48, 48>>)  \* 'красный': 'FF0000'
    @@ (<<1079, 1077, 1083, 1077, 1085, 1099, 1081>> :> <<48, 48, 56, 48, 48, 48>>)  \* 'зеленый': '008000'
    @@ (<<1082, 1086, 1088, 1080, 1095, 1085, 1077, 1074, 1099, 1081>> :> <<65, 53, 50, 65, 50, 65>>)  \* 'коричневый': 'A52A2A'
    @@ (<<1078, 1077, 1083, 1090, 1099, 1081>> :> <<70, 70, 70, 70, 48, 48>>)  \* 'желтый': 'FFFF00'
    @@ (<<1086, 1088, 1072, 1085, 1078, 1077, 1074, 1099, 1081>> :> <<70, 70, 65, 53, 48, 48>>)  \* 'оранжевый': 'FFA500'
    @@ (<<1092, 1080, 1086, 1083, 1077, 1090, 1086, 1074, 1099, 1081>> :> <<56, 48, 48, 48, 56, 48>>)  \* 'фиолетовый': '800080'
    @@ (<<1075, 1086, 1083, 1091, 1073, 1086, 1081>> :> <<48, 48, 70, 70, 70, 70>>)  \* 'голубой': '00FFFF'
    @@ (<<1088, 1086, 1079, 1086, 1074, 1099, 1081>> :> <<70, 70, 67, 48, 67, 66>>)  \* 'розовый': 'FFC0CB'
    @@ (<<1073, 1086, 1088, 1076, 1086, 1074, 1099, 1081>> :> <<56, 48, 48, 48, 48, 48>>)  \* 'бордовый': '800000'
    @@ (<<1073, 1077, 1078, 1077, 1074, 1099, 1081>> :> <<70, 53, 70, 53, 68, 67>>)  \* 'бежевый': 'F5F5DC'
    @@ (<<1079, 1086, 1083, 1086, 1090, 1086, 1081>> :> <<70, 70, 68, 55, 48, 48>>)  \* 'золотой': 'FFD700'
    @@ (<<1073, 1080, 1088, 1102, 1079, 1086, 1074, 1099, 1081>> :> <<52, 48, 69, 48, 68, 48>>)  \* 'бирюзовый': '40E0D0'

T_avtomaticheskaya == <<1072, 1074, 1090, 1086, 1084, 1072, 1090, 1080, 1095, 1077, 1089, 1082, 1072, 1103>>  \* "автоматическая"
T_robot == <<1088, 1086, 1073, 1086, 1090>>  \* "робот"
T_AUTOMATIC == <<65, 85, 84, 79, 77, 65, 84, 73, 67>>  \* "AUTOMATIC"
T_MECHANICAL == <<77, 69, 67, 72, 65, 78, 73, 67, 65, 76>>  \* "MECHANICAL"
T_ROBOT == <<82, 79, 66, 79, 84>>  \* "ROBOT"
T_chernyi == <<1095, 1077, 1088, 1085, 1099, 1081>>  \* "черный"
T_c040001 == <<48, 52, 48, 48, 48, 49>>  \* "040001"
T_cFFFFFF == <<70, 70, 70, 70, 70, 70>>  \* "FFFFFF"
T_Levyi == <<1051, 1077, 1074, 1099, 1081>>  \* "Левый"
T_Original == <<1054, 1088, 1080, 1075, 1080, 1085, 1072, 1083>>  \* "Оригинал"
T_Komplektatsiya_default == <<123, 39, 105, 100, 39, 58, 32, 39, 48, 39, 44, 32, 39, 110, 97, 109, 101, 39, 58, 32, 39, 39, 125>>  \* "{'id': '0', 'name': ''}"
T_Vladenie_default == <<123, 39, 121, 101, 97, 114, 39, 58, 32, 49, 57, 55, 55, 44, 32, 39, 109, 111, 110, 116, 104, 39, 58, 32, 49, 50, 125>>  \* "{'year': 1977, 'month': 12}"
T_UNK == <<85, 78, 75>>  \* "UNK"
T_plus_space == <<43, 32>>  \* "+ "
T_space_AT == <<32, 65, 84>>  \* " AT"
T_Vyberite_marku == <<1042, 1099, 1073, 1077, 1088, 1080, 1090, 1077, 32, 1084, 1072, 1088, 1082, 1091>>  \* "Выберите марку"
T_TOYOTA == <<84, 79, 89, 79, 84, 65>>  \* "TOYOTA"
T_BMW == <<66, 77, 87>>  \* "BMW"
T_Camry == <<67, 97, 109, 114, 121>>  \* "Camry"
T_Sedan == <<1057, 1077, 1076, 1072, 1085>>  \* "Седан"
T_Universal_5_dv == <<1059, 1085, 1080, 1074, 1077, 1088, 1089, 1072, 1083, 32, 53, 32, 1076, 1074, 46>>  \* "Универсал 5 дв."
T_benzin == <<1073, 1077, 1085, 1079, 1080, 1085>>  \* "бензин"
T_perednii == <<1087, 1077, 1088, 1077, 1076, 1085, 1080, 1081>>  \* "передний"
-----------------------------------------------------------------------------
(* Python text primitives on code-point sequences.                         *)

IsDigit(c) == c \in 48..57
IsSpace(c) == c \in {32, 9, 10, 13}

\* str.upper(), per character (Latin and Russian letters)
UpperChar(c) ==
    IF c \in 97..122 THEN c - 32
    ELSE IF c \in 1072..1103 THEN c - 32
    ELSE IF c = 1105 THEN 1025
    ELSE c

LowerChar(c) ==
    IF c \in 65..90 THEN c + 32
    ELSE IF c \in 1040..1071 THEN c + 32
    ELSE IF c = 1025 THEN 1105
    ELSE c

Upper(s) == [i \in 1..Len(s) |-> UpperChar(s[i])]
Lower(s) == [i \in 1..Len(s) |-> LowerChar(s[i])]

\* str.replace(a, b) for single characters a, b
ReplaceChar(s, a, b) == [i \in 1..Len(s) |-> IF s[i] = a THEN b ELSE s[i]]

\* str.strip()
RECURSIVE LStrip(_)
LStrip(s) == IF s # <<>> /\ IsSpace(Head(s)) THEN LStrip(Tail(s)) ELSE s
RECURSIVE RStrip(_)
RStrip(s) ==
    IF s # <<>> /\ IsSpace(s[Len(s)]) THEN RStrip(SubSeq(s, 1, Len(s) - 1)) ELSE s
Strip(s) == RStrip(LStrip(s))

\* s[:n]
Prefix(s, n) == SubSeq(s, 1, IF Len(s) < n THEN Len(s) ELSE n)

RECURSIVE Pow10(_)
Pow10(k) == IF k = 0 THEN 1 ELSE 10 * Pow10(k - 1)

\* decimal digits of a natural number
RECURSIVE StrOfNat(_)
StrOfNat(n) ==
    IF n < 10 THEN <<48 + n>> ELSE StrOfNat(n \div 10) \o <<48 + (n % 10)>>

\* k digits of n, zero padded on the left
RECURSIVE PadDigits(_, _)
PadDigits(n, k) ==
    IF k = 0 THEN <<>> ELSE PadDigits(n \div 10, k - 1) \o <<48 + (n % 10)>>

\* value of a sequence of digits
RECURSIVE NatOfDigits(_)
NatOfDigits(ds) ==
    IF ds = <<>> THEN 0
    ELSE 10 * NatOfDigits(SubSeq(ds, 1, Len(ds) - 1)) + (ds[Len(ds)] - 48)

AllDigits(s) == \A i \in 1..Len(s) : IsDigit(s[i])

-----------------------------------------------------------------------------
(* Python scalar values.  t is the type; an int is n; a float is n / 10^k  *)
(* (k fraction digits, none of them a trailing zero) or the special value   *)
(* sp ("inf", "-inf", "nan"); a str is the text s.                          *)

VStr(s) == [t |-> "str", n |-> 0, k |-> 0, sp |-> "", s |-> s]
VInt(n) == [t |-> "int", n |-> n, k |-> 0, sp |-> "", s |-> <<>>]
VSpecial(sp) == [t |-> "float", n |-> 0, k |-> 0, sp |-> sp, s |-> <<>>]

\* the float n / 10^k, normalised
RECURSIVE VFloat(_, _)
VFloat(n, k) ==
    IF k > 0 /\ n % 10 = 0 THEN VFloat(n \div 10, k - 1)
    ELSE [t |-> "float", n |-> n, k |-> k, sp |-> "", s |-> <<>>]

IsNumber(v) == v.t \in {"int", "float"}

\* float(x) of an int or a float
FloatOf(v) == IF v.t = "int" THEN VFloat(v.n, 0) ELSE v

\* repr of a float: "2.0", "1.6", "150.0", "inf", "nan"
StrOfFloat(v) ==
    IF v.sp # "" THEN
        CASE v.sp = "inf" -> <<105, 110, 102>>
          [] v.sp = "-inf" -> <<45, 105, 110, 102>>
          [] OTHER -> <<110, 97, 110>>
    ELSE
        LET a == IF v.n < 0 THEN 0 - v.n ELSE v.n
            p == Pow10(v.k)
            sign == IF v.n < 0 THEN <<45>> ELSE <<>>
            frac == IF v.k = 0 THEN <<48>> ELSE PadDigits(a % p, v.k)
        IN  sign \o StrOfNat(a \div p) \o <<46>> \o frac

\* str(v), and the text an f-string inserts for v
Str(v) ==
    CASE v.t = "str" -> v.s
      [] v.t = "int" -> IF v.n < 0 THEN <<45>> \o StrOfNat(0 - v.n) ELSE StrOfNat(v.n)
      [] OTHER -> StrOfFloat(v)

\* bool(v)
Truthy(v) ==
    CASE v.t = "str" -> v.s # <<>>
      [] v.t = "int" -> v.n # 0
      [] OTHER -> v.sp # "" \/ v.n # 0

-----------------------------------------------------------------------------
(* Python dicts with insertion order: the keys in order, and their values. *)
(* none marks the value None where a function may return it.               *)

EmptyDict == [none |-> FALSE, keys |-> <<>>, val |-> <<>>]
NoneDict == [none |-> TRUE, keys |-> <<>>, val |-> <<>>]

Has(d, key) == key \in DOMAIN d.val
GetOr(d, key, default) == IF Has(d, key) THEN d.val[key] ELSE default
Put(d, key, v) ==
    [none |-> FALSE,
     keys |-> IF Has(d, key) THEN d.keys ELSE Append(d.keys, key),
     val |-> [x \in (DOMAIN d.val) \cup {key} |-> IF x = key THEN v ELSE d.val[x]]]

RECURSIVE DictOf(_)
\* the dict literal with the given <<key, value>> items
DictOf(items) ==
    IF items = <<>> THEN EmptyDict
    ELSE Put(DictOf(SubSeq(items, 1, Len(items) - 1)),
             items[Len(items)][1], items[Len(items)][2])

-----------------------------------------------------------------------------
(* prepare_features_for_model (app.py:110-175)                             *)

\* the for loop over VALUE_MAPPINGS.items(), app.py:119-121
MapField(p, vm, field) ==
    IF Has(p, field) /\ p.val[field].t = "str" /\ p.val[field].s \in DOMAIN vm[field]
    THEN Put(p, field, VStr(vm[field][p.val[field].s]))
    ELSE p

ApplyMappings(p, vm) ==
    MapField(MapField(MapField(MapField(p, vm, "vehicleTransmission"),
                               vm, "Rul"), vm, "PTS"), vm, "color")

\* re.search(r'(\d+\.?\d*)', s): the span <<first, last>> of the leftmost match,
\* or <<0, 0>> when s holds no digit
RECURSIVE DigitRunEnd(_, _)
DigitRunEnd(s, i) ==
    IF i < Len(s) /\ IsDigit(s[i + 1]) THEN DigitRunEnd(s, i + 1) ELSE i

FirstDigit(s) ==
    IF \E i \in 1..Len(s) : IsDigit(s[i])
    THEN CHOOSE i \in 1..Len(s) :
            IsDigit(s[i]) /\ \A j \in 1..(i - 1) : ~IsDigit(s[j])
    ELSE 0

\* the match of (\d+): the first run of digits, without a fraction
NumMatch_IntegerOnly(s) ==
    IF FirstDigit(s) = 0 THEN <<0, 0>>
    ELSE <<FirstDigit(s), DigitRunEnd(s, FirstDigit(s))>>

NumMatch(s) ==
    LET i == FirstDigit(s)
        j == DigitRunEnd(s, i)
        d == IF j < Len(s) /\ s[j + 1] = 46 THEN j + 1 ELSE j
        e == IF d > j THEN DigitRunEnd(s, d) ELSE j
    IN  IF i = 0 THEN <<0, 0>> ELSE <<i, e>>

\* float(m) of a matched text m = digits [ "." digits ]
FloatOfMatch(m) ==
    LET j == DigitRunEnd(m, 1)
        ip == SubSeq(m, 1, j)
        fp == SubSeq(m, j + 2, Len(m))
    IN  VFloat(NatOfDigits(ip \o fp), Len(fp))

\* float(s) of a text without digits: only the spellings of infinity and nan
\* convert; ok is FALSE where Python raises ValueError
FloatOfWord(s) ==
    LET w == Lower(Strip(s))
        neg == w # <<>> /\ w[1] = 45
        body == IF w # <<>> /\ w[1] \in {43, 45} THEN Tail(w) ELSE w
    IN  IF body \in {<<105, 110, 102>>, <<105, 110, 102, 105, 110, 105, 116, 121>>}
        THEN [ok |-> TRUE, v |-> VSpecial(IF neg THEN "-inf" ELSE "inf")]
        ELSE IF body = <<110, 97, 110>>
        THEN [ok |-> TRUE, v |-> VSpecial("nan")]
        ELSE [ok |-> FALSE, v |-> VSpecial("nan")]

DEFAULT_DISPLACEMENT == VFloat(20, 1)   \* the literal 2.0 of app.py:135

\* the value app.py:126-135 stores in engineDisplacement_num
EngineDisplacementNum(v) ==
    LET engine_value == Str(v)
        num_match == NumMatch(engine_value)
    IN  IF num_match # <<0, 0>>
        THEN FloatOfMatch(SubSeq(engine_value, num_match[1], num_match[2]))
        ELSE IF FloatOfWord(engine_value).ok
        THEN FloatOfWord(engine_value).v
        ELSE DEFAULT_DISPLACEMENT

SetEngineDisplacementNum(p) ==
    IF Has(p, "engineDisplacement")
    THEN Put(p, "engineDisplacement_num", EngineDisplacementNum(p.val["engineDisplacement"]))
    ELSE p

\* app.py:138-139
SetModelDate(p) ==
    IF Has(p, "productionDate") THEN Put(p, "modelDate", p.val["productionDate"]) ELSE p

FALLBACK_DISPLACEMENT == VFloat(16, 1)  \* the literal 1.6 of app.py:147 and 152

\* app.py:142-147
SetName(p) ==
    LET brand == GetOr(p, "brand", VStr(<<>>))
        model == GetOr(p, "model", VStr(<<>>))
    IN  IF Truthy(brand) /\ Truthy(model)
        THEN Put(p, "name", VStr(Str(brand) \o <<32>> \o Str(model)))
        ELSE Put(p, "name",
                 VStr(T_plus_space
                      \o Str(GetOr(p, "engineDisplacement", FALLBACK_DISPLACEMENT))
                      \o T_space_AT))

\* body_type of app.py:150
NormalizeBodyType(s) == Upper(ReplaceChar(s, 32, 95))

\* the f-string of app.py:153
JoinConfiguration(body_type, transmission, engine) ==
    body_type \o <<95>> \o Str(transmission) \o <<95>> \o Str(engine)

\* app.py:150-153
SetVehicleConfiguration(p) ==
    LET body_type == NormalizeBodyType(GetOr(p, "bodyType", VStr(<<>>)).s)
        transmission == GetOr(p, "vehicleTransmission", VStr(T_AUTOMATIC))
        engine == GetOr(p, "engineDisplacement", FALLBACK_DISPLACEMENT)
    IN  Put(p, "vehicleConfiguration",
            VStr(JoinConfiguration(body_type, transmission, engine)))

\* the defaults table of app.py:156-165, in order
Defaults(p) ==
    LET brand == GetOr(p, "brand", VStr(<<>>))
    IN  << <<"color", VStr(T_c040001)>>,
           <<"Komplektatsiya", VStr(T_Komplektatsiya_default)>>,
           <<"Vladenie", VStr(T_Vladenie_default)>>,
           <<"model", VStr(IF Truthy(brand) THEN Prefix(brand.s, 3) ELSE T_UNK)>>,
           <<"description_length", VInt(150)>>,
           <<"start_year", VInt(2024)>>,
           <<"start_month", VInt(1)>>,
           <<"start_day", VInt(1)>> >>

RECURSIVE PutMissing(_, _)
\* app.py:167-169
PutMissing(p, items) ==
    IF items = <<>> THEN p
    ELSE PutMissing(IF Has(p, Head(items)[1]) THEN p
                    ELSE Put(p, Head(items)[1], Head(items)[2]),
                    Tail(items))

ApplyDefaults(p) == PutMissing(p, Defaults(p))

\* where the body of the outer try raises: .replace on a bodyType that is not a
\* str (app.py:150), brand[:3] on a brand that is not a str (app.py:160)
PrepareRaises(p) ==
    \/ Has(p, "bodyType") /\ p.val["bodyType"].t # "str"
    \/ Has(p, "brand") /\ Truthy(p.val["brand"]) /\ p.val["brand"].t # "str"

\* no copy: the working record is the caller's own dict
CallerAfterCopy_Alias(cf, p) == p

\* app.py:116 works on prepared_features = car_features.copy(): the writes of
\* app.py:121-169 reach the copy p, and the argument cf keeps its value
CallerAfterCopy(cf, p) == cf

\* the working record after app.py:119-169 ran on it
PrepareSteps(p, vm) ==
    ApplyDefaults(SetVehicleConfiguration(SetName(SetModelDate(
        SetEngineDisplacementNum(ApplyMappings(p, vm))))))

\* the working record when the body raises: at app.py:150 (bodyType) the name is
\* already set, at app.py:160 (brand) the configuration too
StepsBeforeRaise(p, vm) ==
    LET named == SetName(SetModelDate(SetEngineDisplacementNum(ApplyMappings(p, vm))))
    IN  IF Has(p, "bodyType") /\ p.val["bodyType"].t # "str" THEN named
        ELSE SetVehicleConfiguration(named)

\* prepare_features_for_model: ret is the returned record (NoneDict after an
\* exception, app.py:173-175), caller is the argument as the call leaves it
prepare_features_for_model(cf, vm) ==
    IF PrepareRaises(ApplyMappings(cf, vm))
    THEN [ret |-> NoneDict, raised |-> TRUE,
          caller |-> CallerAfterCopy(cf, StepsBeforeRaise(cf, vm))]
    ELSE [ret |-> PrepareSteps(cf, vm), raised |-> FALSE,
          caller |-> CallerAfterCopy(cf, PrepareSteps(cf, vm))]

-----------------------------------------------------------------------------
(* predict_car_price (app.py:178-241)                                      *)

\* a LabelEncoder: classes_ in its order; fitted is FALSE for an object without
\* classes_ (reading it raises)
Encoder(classes) == [fitted |-> TRUE, classes |-> classes]
UnfittedEncoder == [fitted |-> FALSE, classes |-> <<>>]

Range(seq) == {seq[i] : i \in 1..Len(seq)}

\* a transform that counts the classes from 1
Transform_OneBased(classes, v) == CHOOSE i \in 1..Len(classes) : classes[i] = v

\* LabelEncoder.transform([v])[0]: the position of v in classes_, from 0
Transform(classes, v) == (CHOOSE i \in 1..Len(classes) : classes[i] = v) - 1

\* LabelEncoder.transform alone, with no fallback for an unseen label
EncodeValue_NoFallback(enc, v) ==
    IF enc.fitted /\ Str(v) \in Range(enc.classes)
    THEN [ok |-> TRUE, code |-> Transform(enc.classes, Str(v))]
    ELSE [ok |-> FALSE, code |-> 0]

\* app.py:200-210 for one column: ok is FALSE where the try body raises
EncodeValue(enc, v) ==
    LET input_value == Str(v)
        known_categories == Range(enc.classes)
    IN  IF ~enc.fitted THEN [ok |-> FALSE, code |-> 0]
        ELSE IF input_value \in known_categories
        THEN [ok |-> TRUE, code |-> Transform(enc.classes, input_value)]
        ELSE IF enc.classes = <<>> THEN [ok |-> FALSE, code |-> 0]
        ELSE [ok |-> TRUE, code |-> Transform(enc.classes, enc.classes[1])]

RECURSIVE EncodeColumns(_, _, _)
\* the loop of app.py:196-213 over the columns cols of df: the frame with each
\* encoded column replaced, or the first column whose encoding raised
EncodeColumns(df, cols, encoders) ==
    IF cols = <<>> THEN [ok |-> TRUE, df |-> df, col |-> ""]
    ELSE LET col == Head(cols)
         IN  IF ~Has(encoders, col)
             THEN EncodeColumns(df, Tail(cols), encoders)
             ELSE LET r == EncodeValue(encoders.val[col], df.val[col])
                  IN  IF r.ok
                      THEN EncodeColumns(Put(df, col, VInt(r.code)), Tail(cols), encoders)
                      ELSE [ok |-> FALSE, df |-> df, col |-> col]

RECURSIVE FillMissing(_, _)
\* app.py:216-218
FillMissing(df, feature_names) ==
    IF feature_names = <<>> THEN df
    ELSE FillMissing(IF Has(df, Head(feature_names)) THEN df
                     ELSE Put(df, Head(feature_names), VInt(0)),
                     Tail(feature_names))

\* input_df[feature_names], app.py:221
SelectColumns(df, feature_names) ==
    DictOf([i \in 1..Len(feature_names) |->
                <<feature_names[i], df.val[feature_names[i]]>>])

\* the frame with the missing columns added but never reindexed
AssembleVector_NoReindex(df, feature_names) == FillMissing(df, feature_names)

\* app.py:215-221
AssembleVector(df, feature_names) ==
    SelectColumns(FillMissing(df, feature_names), feature_names)

\* pd.to_numeric of a text: an optionally signed decimal number, or a spelling
\* of infinity / nan; ok is FALSE where it raises
ToNumeric(s) ==
    LET w == Strip(s)
        neg == w # <<>> /\ w[1] = 45
        body == IF w # <<>> /\ w[1] \in {43, 45} THEN Tail(w) ELSE w
        m == NumMatch(body)
        sgn == IF neg THEN 0 - 1 ELSE 1
    IN  IF body # <<>> /\ AllDigits(body)
        THEN [ok |-> TRUE, v |-> VInt(sgn * NatOfDigits(body))]
        ELSE IF Len(body) > 1 /\ body[1] = 46 /\ AllDigits(Tail(body))
        THEN [ok |-> TRUE, v |-> VFloat(sgn * NatOfDigits(Tail(body)), Len(body) - 1)]
        ELSE IF body # <<>> /\ m = <<1, Len(body)>>
        THEN LET f == FloatOfMatch(body)
             IN  [ok |-> TRUE, v |-> VFloat(sgn * f.n, f.k)]
        ELSE FloatOfWord(w)

RECURSIVE CoerceColumns(_, _)
\* app.py:224-229: every object (text) column, in order
CoerceColumns(df, cols) ==
    IF cols = <<>> THEN [ok |-> TRUE, df |-> df, col |-> ""]
    ELSE LET col == Head(cols)
         IN  IF df.val[col].t # "str" THEN CoerceColumns(df, Tail(cols))
             ELSE LET r == ToNumeric(df.val[col].s)
                  IN  IF r.ok THEN CoerceColumns(Put(df, col, r.v), Tail(cols))
                      ELSE [ok |-> FALSE, df |-> df, col |-> col]

\* the thousands of x with the rest cut off
RoundThousands_Truncate(x) == (x \div 1000) * 1000

\* round(x, -3) of a float holding the integer x: to the nearest multiple of
\* 1000, a tie to the even multiple
RoundThousands(x) ==
    LET q == x \div 1000
        r == x % 1000
    IN  IF r < 500 THEN q * 1000
        ELSE IF r > 500 THEN (q + 1) * 1000
        ELSE IF q % 2 = 0 THEN q * 1000 ELSE (q + 1) * 1000

\* predict_car_price's return value: None or a price
NonePrice == [none |-> TRUE, price |-> 0]
Price(x) == [none |-> FALSE, price |-> x]

-----------------------------------------------------------------------------
(* load_model_and_encoders (app.py:64-107) and the artifacts it reads      *)

model_path == "models/lightgbm_car_price_model.txt"
encoders_path == "models/label_encoders.pkl"
features_path == "models/feature_names.pkl"

\* a st.error call: what it reports and about which file, column or fields
Err(kind, about) == [kind |-> kind, about |-> about, fields |-> <<>>]

\* the numeric feature names of app.py:94-96
NUMERIC_FEATURES ==
    <<"productionDate", "mileage", "enginePower", "engineDisplacement",
      "numberOfDoors", "Vladeltsy", "engineDisplacement_num",
      "description_length", "start_year", "start_month", "start_day">>

\* the bundle of app.py:99-103, and None
Bundle(encoders, feature_names) ==
    [none |-> FALSE, model |-> model_path, encoders |-> encoders,
     feature_names |-> feature_names]
NoBundle ==
    [none |-> TRUE, model |-> "", encoders |-> EmptyDict, feature_names |-> <<>>]

\* a loader that goes on without the encoder file
load_model_and_encoders_NoEncoderCheck(f, a) ==
    IF f.model # "ok"
    THEN [ret |-> NoBundle, errors |-> <<Err("file_not_found", model_path)>>]
    ELSE [ret |-> Bundle(IF f.encoders = "ok" THEN a.encoders ELSE EmptyDict,
                         a.feature_names),
          errors |-> <<>>]

\* f is the state of the three files ("ok", "missing", or "corrupt": present but
\* its load raises), a is what the encoder and feature-name files hold
load_model_and_encoders(f, a) ==
    IF f.model = "missing"
    THEN [ret |-> NoBundle, errors |-> <<Err("file_not_found", model_path)>>]
    ELSE IF f.model = "corrupt"
    THEN [ret |-> NoBundle, errors |-> <<Err("load_error", "")>>]
    ELSE IF f.encoders = "missing"
    THEN [ret |-> NoBundle, errors |-> <<Err("file_not_found", encoders_path)>>]
    ELSE IF f.encoders = "corrupt"
    THEN [ret |-> NoBundle, errors |-> <<Err("load_error", "")>>]
    ELSE IF f.features = "corrupt"
    THEN [ret |-> NoBundle, errors |-> <<Err("load_error", "")>>]
    ELSE IF f.features = "ok"
    THEN [ret |-> Bundle(a.encoders, a.feature_names), errors |-> <<>>]
    ELSE [ret |-> Bundle(a.encoders, a.encoders.keys \o NUMERIC_FEATURES),
          errors |-> <<>>]

-----------------------------------------------------------------------------
(* Bounded artifacts: encoder tables and feature schemas.                  *)

NClasses == 2       \* known categories per fitted encoder

T_VOLVO == <<86, 79, 76, 86, 79>>  \* "VOLVO"
T_Kupe == <<1050, 1091, 1087, 1077>>  \* "Купе"
T_SEDAN_latin_AUTOMATIC_2_0 == <<83, 69, 68, 65, 78, 95, 65, 85, 84, 79, 77, 65, 84, 73, 67, 95, 50, 46, 48>>  \* "SEDAN_AUTOMATIC_2.0"
T_SEDAN_cyr_AUTOMATIC_2_0 == <<1057, 1045, 1044, 1040, 1053, 95, 65, 85, 84, 79, 77, 65, 84, 73, 67, 95, 50, 46, 48>>  \* "СЕДАН_AUTOMATIC_2.0"
T_UNIVERSAL_cyr_ROBOT_2_0 == <<1059, 1053, 1048, 1042, 1045, 1056, 1057, 1040, 1051, 95, 53, 95, 1044, 1042, 46, 95, 82, 79, 66, 79, 84, 95, 50, 46, 48>>  \* "УНИВЕРСАЛ_5_ДВ._ROBOT_2.0"

\* category lists in the order LabelEncoder keeps them (sorted by code point)
MasterClasses(col) ==
    CASE col = "brand" -> <<T_BMW, T_TOYOTA, T_VOLVO>>
      [] col = "vehicleTransmission" -> <<T_AUTOMATIC, T_MECHANICAL, T_ROBOT>>
      [] col = "bodyType" -> <<T_Kupe, T_Sedan, T_Universal_5_dv>>
      [] col = "modelDate" -> <<StrOfNat(2018), StrOfNat(2019), StrOfNat(2024)>>
      [] OTHER -> <<T_SEDAN_latin_AUTOMATIC_2_0, T_SEDAN_cyr_AUTOMATIC_2_0,
                    T_UNIVERSAL_cyr_ROBOT_2_0>>

Fitted(col) == <<col, Encoder(Prefix(MasterClasses(col), NClasses))>>

\* a table with an encoder for every categorical column of the schemas below
FullTable ==
    DictOf(<<Fitted("brand"), Fitted("vehicleTransmission"), Fitted("bodyType"),
             Fitted("modelDate"), Fitted("vehicleConfiguration")>>)

\* a table whose fuelType entry is an object without classes_
BrokenTable == DictOf(<<Fitted("brand"), <<"fuelType", UnfittedEncoder>> >>)

EncoderTables == {FullTable, BrokenTable}

\* "vendor" is a training feature the record never carries
Schemas ==
    { <<"brand", "bodyType", "vehicleTransmission", "productionDate", "mileage",
        "enginePower", "engineDisplacement_num", "vehicleConfiguration",
        "modelDate", "vendor">>,
      <<"mileage", "vendor", "color", "brand">>,
      <<"brand", "Privod", "mileage">> }

ArtifactContents == [encoders : EncoderTables, feature_names : Schemas]

FileStates == {"ok", "missing", "corrupt"}
Directories == [model : FileStates, encoders : FileStates, features : FileStates]

-----------------------------------------------------------------------------
(* main (app.py:313-549): the form's record, the required-field check and   *)
(* the display of the result                                                *)

\* create_car_features_dict (app.py:287-307) on the widget values a
create_car_features_dict(a) ==
    DictOf(<< <<"brand", VStr(IF a.brand # <<>> THEN Upper(a.brand) ELSE <<>>)>>,
              <<"model", VStr(a.model_name)>>,
              <<"productionDate", VInt(a.year)>>,
              <<"mileage", VInt(a.mileage)>>,
              <<"enginePower", FloatOf(VInt(a.engine_power))>>,
              <<"engineDisplacement", FloatOf(a.engine_volume)>>,
              <<"fuelType", VStr(a.fuel_type)>>,
              <<"vehicleTransmission", VStr(a.transmission)>>,
              <<"bodyType", VStr(a.body_type)>>,
              <<"Privod", VStr(a.drive)>>,
              <<"PTS", VStr(a.pts)>>,
              <<"Rul", VStr(a.wheel)>>,
              <<"color", VStr(a.color)>>,
              <<"numberOfDoors", VInt(a.doors)>>,
              <<"Vladeltsy", VInt(a.owners)>> >>)

required_fields == <<"brand", "productionDate", "mileage", "enginePower">>

\* not car_features.get(field), app.py:498
NotGet(cf, field) == ~Has(cf, field) \/ ~Truthy(cf.val[field])

\* missing_fields of app.py:497-498
MissingFields(cf) ==
    SelectSeq(required_fields, LAMBDA field : NotGet(cf, field))

mae == 135699

Max(a, b) == IF a > b THEN a ELSE b

\* what main displays: nothing yet, the rejection of app.py:501, the estimate
\* of app.py:508-536 or the failure of app.py:549
NoShow == [kind |-> "none", price |-> 0, lower |-> 0, upper |-> 0]
ShowRejected == [kind |-> "rejected", price |-> 0, lower |-> 0, upper |-> 0]
ShowFailure == [kind |-> "failure", price |-> 0, lower |-> 0, upper |-> 0]
ShowPrice(predicted_price) ==
    [kind |-> "price", price |-> predicted_price,
     lower |-> Max(0, predicted_price - mae), upper |-> predicted_price + mae]

\* the test of app.py:507
PriceIsTruthy(r) == ~r.none /\ r.price # 0

\* app.py:507-549
Display(r) == IF PriceIsTruthy(r) THEN ShowPrice(r.price) ELSE ShowFailure

-----------------------------------------------------------------------------
(* Bounded inputs                                                          *)

MaxRequests == 2    \* form submissions in one run
MaxDelta == 1       \* raw outputs lie within MaxDelta of a half thousand

\* the widget values of the scenario: TOYOTA Camry 2018, 50000 km, 150 hp, 2.0 l
ScenarioArgs ==
    [brand |-> T_TOYOTA, model_name |-> T_Camry, year |-> 2018, mileage |-> 50000,
     engine_power |-> 150, engine_volume |-> VFloat(20, 1), fuel_type |-> T_benzin,
     transmission |-> T_avtomaticheskaya, body_type |-> T_Sedan,
     drive |-> T_perednii, pts |-> T_Original, wheel |-> T_Levyi,
     color |-> T_chernyi, doors |-> 4, owners |-> 2]

T_Vyberite_model == <<1042, 1099, 1073, 1077, 1088, 1080, 1090, 1077, 32, 1084, 1086, 1076, 1077, 1083, 1100>>  \* "Выберите модель"
T_X5 == <<88, 53>>  \* "X5"

\* the brand selectbox of app.py:342-346, cut to its placeholder, two brands
\* with models and one without
BrandOptions == {T_Vyberite_marku, T_TOYOTA, T_BMW, T_VOLVO}

\* model_options of app.py:350-352, each brand_models list cut to one model
ModelOptions(brand) ==
    IF brand = T_TOYOTA THEN {T_Camry}
    ELSE IF brand = T_BMW THEN {T_X5}
    ELSE {T_Vyberite_model}

\* disabled= of the submit button, app.py:479-480
ButtonDisabled(a) == a.brand = T_Vyberite_marku \/ a.model_name = T_Vyberite_model

\* values the widgets can hold, at the ends of their ranges and in between
FormArgs ==
    { [ScenarioArgs EXCEPT !.brand = b[1], !.model_name = b[2], !.year = y,
                            !.mileage = m, !.engine_power = e] :
        b \in {<<x, n>> : x \in BrandOptions, n \in {T_Camry, T_X5, T_Vyberite_model}},
        y \in {1990, 2024}, m \in {0, 50000, 1000000}, e \in {50, 500} }

\* raw model outputs: around the half thousands of a few thousands, negative
\* ones and ones beyond the error band included
ModelOutputs ==
    { t * 1000 + d : t \in {0 - 2, 0 - 1, 0, 1, 136},
                     d \in {0} \cup ((500 - MaxDelta)..(500 + MaxDelta)) }

-----------------------------------------------------------------------------
(* The script as a state machine.  pc: "boot" (before the load), "stopped"  *)
(* (st.stop), "ready" (form shown), "check" (button pressed, record built), *)
(* "prepare" .. "infer" (inside predict_car_price), "returned" (back in     *)
(* main), "done" (result displayed).                                        *)

VALUE_MAPPINGS_LITERAL ==
    [field \in {"vehicleTransmission", "Rul", "PTS", "color"} |->
        CASE field = "vehicleTransmission" -> Map_vehicleTransmission
          [] field = "Rul" -> Map_Rul
          [] field = "PTS" -> Map_PTS
          [] OTHER -> Map_color]

NoRequest ==
    /\ args = ScenarioArgs
    /\ car_features = EmptyDict
    /\ prepared = NoneDict
    /\ input_df = EmptyDict
    /\ raw = 0
    /\ result = NonePrice
    /\ shown = NoShow
    /\ calls = {}
    /\ failed = "none"

Init ==
    /\ pc = "boot"
    /\ files \in Directories
    /\ artifacts \in ArtifactContents
    /\ VALUE_MAPPINGS = VALUE_MAPPINGS_LITERAL
    /\ model_data = NoBundle
    /\ errors = <<>>
    /\ served = 0
    /\ NoRequest

\* app.py:318-328
Load ==
    /\ pc = "boot"
    /\ LET r == load_model_and_encoders(files, artifacts)
       IN  /\ model_data' = r.ret
           /\ IF r.ret.none
              THEN /\ errors' = r.errors \o <<Err("model_unavailable", "")>>
                   /\ pc' = "stopped"
              ELSE /\ errors' = r.errors
                   /\ pc' = "ready"
    /\ UNCHANGED <<files, artifacts, VALUE_MAPPINGS, args, car_features, prepared,
                   input_df, raw, result, shown, calls, failed, served>>

\* the button of app.py:475 is pressed: app.py:484-493
Submit ==
    /\ pc = "ready"
    /\ served < MaxRequests
    /\ \E a \in FormArgs :
        /\ a.model_name \in ModelOptions(a.brand)
        /\ ~ButtonDisabled(a)
        /\ args' = a
        /\ car_features' = create_car_features_dict(a)
    /\ prepared' = NoneDict
    /\ input_df' = EmptyDict
    /\ raw' = 0
    /\ result' = NonePrice
    /\ shown' = NoShow
    /\ calls' = {}
    /\ failed' = "none"
    /\ errors' = <<>>
    /\ served' = served + 1
    /\ pc' = "check"
    /\ UNCHANGED <<files, artifacts, VALUE_MAPPINGS, model_data>>

\* app.py:495-505
CheckRequired ==
    /\ pc = "check"
    /\ LET missing_fields == MissingFields(car_features)
       IN  IF missing_fields # <<>>
           THEN /\ errors' = Append(errors, [kind |-> "missing_fields", about |-> "",
                                             fields |-> missing_fields])
                /\ shown' = ShowRejected
                /\ calls' = calls
                /\ pc' = "done"
           ELSE /\ calls' = calls \cup {"predict_car_price"}
                /\ pc' = "prepare"
                /\ UNCHANGED <<errors, shown>>
    /\ UNCHANGED <<files, artifacts, VALUE_MAPPINGS, model_data, args, car_features,
                   prepared, input_df, raw, result, failed, served>>

\* app.py:188-193
Prepare ==
    /\ pc = "prepare"
    /\ calls' = calls \cup {"prepare_features_for_model"}
    /\ LET r == prepare_features_for_model(car_features, VALUE_MAPPINGS)
       IN  /\ car_features' = r.caller
           /\ prepared' = r.ret
           /\ IF r.raised
              THEN /\ errors' = Append(errors, Err("prepare_error", ""))
                   /\ failed' = "preparation"
                   /\ pc' = "returned"
                   /\ UNCHANGED input_df
              ELSE /\ input_df' = r.ret
                   /\ pc' = "encode"
                   /\ UNCHANGED <<errors, failed>>
    /\ UNCHANGED <<files, artifacts, VALUE_MAPPINGS, model_data, args, raw, result,
                   shown, served>>

\* app.py:196-213
Encode ==
    /\ pc = "encode"
    /\ LET r == EncodeColumns(input_df, input_df.keys, model_data.encoders)
       IN  IF r.ok
           THEN /\ input_df' = r.df
                /\ pc' = "assemble"
                /\ UNCHANGED <<errors, failed>>
           ELSE /\ errors' = Append(errors, Err("encoding_error", r.col))
                /\ failed' = "encoding"
                /\ pc' = "returned"
                /\ UNCHANGED input_df
    /\ UNCHANGED <<files, artifacts, VALUE_MAPPINGS, model_data, args, car_features,
                   prepared, raw, result, shown, calls, served>>

\* app.py:216-221
Assemble ==
    /\ pc = "assemble"
    /\ input_df' = AssembleVector(input_df, model_data.feature_names)
    /\ pc' = "coerce"
    /\ UNCHANGED <<files, artifacts, VALUE_MAPPINGS, model_data, args, car_features,
                   prepared, raw, result, errors, shown, calls, failed, served>>

\* app.py:224-229
Coerce ==
    /\ pc = "coerce"
    /\ LET r == CoerceColumns(input_df, input_df.keys)
       IN  IF r.ok
           THEN /\ input_df' = r.df
                /\ pc' = "infer"
                /\ UNCHANGED <<errors, failed>>
           ELSE /\ errors' = Append(errors, Err("coercion_error", r.col))
                /\ failed' = "coercion"
                /\ pc' = "returned"
                /\ UNCHANGED input_df
    /\ UNCHANGED <<files, artifacts, VALUE_MAPPINGS, model_data, args, car_features,
                   prepared, raw, result, shown, calls, served>>

\* app.py:232-241: the model returns some number, or the call raises
Infer ==
    /\ pc = "infer"
    /\ \/ \E x \in ModelOutputs :
            /\ raw' = x
            /\ result' = Price(RoundThousands(x))
            /\ UNCHANGED <<errors, failed>>
       \/ /\ errors' = Append(errors, Err("predict_error", ""))
          /\ failed' = "model"
          /\ UNCHANGED <<raw, result>>
    /\ pc' = "returned"
    /\ UNCHANGED <<files, artifacts, VALUE_MAPPINGS, model_data, args, car_features,
                   prepared, input_df, shown, calls, served>>

\* app.py:507-549
Show ==
    /\ pc = "returned"
    /\ shown' = Display(result)
    /\ errors' = IF PriceIsTruthy(result) THEN errors
                 ELSE Append(errors, Err("no_estimate", ""))
    /\ pc' = "done"
    /\ UNCHANGED <<files, artifacts, VALUE_MAPPINGS, model_data, args, car_features,
                   prepared, input_df, raw, result, calls, failed, served>>

\* the page is shown again for the next submission
Rerun ==
    /\ pc = "done"
    /\ pc' = "ready"
    /\ UNCHANGED <<files, artifacts, VALUE_MAPPINGS, model_data, args, car_features,
                   prepared, input_df, raw, result, errors, shown, calls, failed,
                   served>>

Next ==
    \/ Load \/ Submit \/ CheckRequired \/ Prepare \/ Encode \/ Assemble
    \/ Coerce \/ Infer \/ Show \/ Rerun

Spec == Init /\ [][Next]_vars

-----------------------------------------------------------------------------
(* predict_car_price called on attribute records of any shape: keys absent, *)
(* texts where the form gives numbers, labels no mapping knows.             *)

MaxDispLen == 3     \* length of the generated engineDisplacement texts

T_LADA == <<76, 65, 68, 65>>  \* "LADA"
T_belyi == <<1073, 1077, 1083, 1099, 1081>>  \* "белый"
T_ruchnaya == <<1088, 1091, 1095, 1085, 1072, 1103>>  \* "ручная"
T_2_0_LTR == <<50, 46, 48, 32, 76, 84, 82>>  \* "2.0 LTR"
T_LTR == <<76, 84, 82>>  \* "LTR"
T_sp_inf == <<32, 105, 110, 102>>  \* " inf"
T_NaN == <<78, 97, 78>>  \* "NaN"

\* "2", ".", "L", " "
DispAlphabet == {50, 46, 76, 32}

DispTexts ==
    UNION {[1..n -> DispAlphabet] : n \in 1..MaxDispLen}
        \cup {<<>>, T_2_0_LTR, T_LTR, T_sp_inf, T_NaN}

DispValues ==
    {VStr(t) : t \in DispTexts} \cup {VFloat(20, 1), VFloat(16, 1), VInt(2)}

\* a key the record does not carry
Absent == [t |-> "absent", n |-> 0, k |-> 0, sp |-> "", s |-> <<>>]

Del(d, key) ==
    [none |-> FALSE,
     keys |-> SelectSeq(d.keys, LAMBDA x : x # key),
     val |-> [x \in (DOMAIN d.val) \ {key} |-> d.val[x]]]

PutOpt(d, key, v) == IF v = Absent THEN Del(d, key) ELSE Put(d, key, v)

ScenarioRecord == create_car_features_dict(ScenarioArgs)

Records ==
    {PutOpt(ScenarioRecord, "engineDisplacement", v) : v \in DispValues \cup {Absent}}
    \cup
    {PutOpt(PutOpt(ScenarioRecord, "bodyType", b), "vehicleTransmission", t) :
        b \in {Absent, VStr(T_Sedan), VStr(T_Universal_5_dv), VInt(4)},
        t \in {Absent, VStr(T_avtomaticheskaya), VStr(T_robot), VStr(T_AUTOMATIC),
               VStr(T_ruchnaya)}}
    \cup
    {PutOpt(PutOpt(PutOpt(ScenarioRecord, "brand", b), "model", m), "color", c) :
        b \in {Absent, VStr(<<>>), VStr(T_TOYOTA), VStr(T_LADA), VInt(7)},
        m \in {Absent, VStr(T_Camry)},
        c \in {Absent, VStr(T_chernyi), VStr(T_belyi), VStr(T_cFFFFFF)}}

PredictInit ==
    /\ pc = "prepare"
    /\ files = [model |-> "ok", encoders |-> "ok", features |-> "ok"]
    /\ artifacts \in ArtifactContents
    /\ VALUE_MAPPINGS = VALUE_MAPPINGS_LITERAL
    /\ model_data = load_model_and_encoders(files, artifacts).ret
    /\ args = ScenarioArgs
    /\ car_features \in Records
    /\ prepared = NoneDict
    /\ input_df = EmptyDict
    /\ raw = 0
    /\ result = NonePrice
    /\ shown = NoShow
    /\ calls = {"predict_car_price"}
    /\ failed = "none"
    /\ errors = <<>>
    /\ served = 1

\* the caller is done with the result: the locals of the call are gone
Return ==
    /\ pc = "done"
    /\ car_features' = EmptyDict
    /\ prepared' = NoneDict
    /\ input_df' = EmptyDict
    /\ raw' = 0
    /\ result' = NonePrice
    /\ shown' = NoShow
    /\ calls' = {}
    /\ failed' = "none"
    /\ errors' = <<>>
    /\ pc' = "idle"
    /\ UNCHANGED <<files, artifacts, VALUE_MAPPINGS, model_data, args, served>>

\* predict_car_price is called again, on another record, with the same bundle
Recall ==
    /\ pc = "idle"
    /\ served < MaxRequests
    /\ car_features' \in Records
    /\ calls' = {"predict_car_price"}
    /\ served' = served + 1
    /\ pc' = "prepare"
    /\ UNCHANGED <<files, artifacts, VALUE_MAPPINGS, model_data, args, prepared,
                   input_df, raw, result, errors, shown, failed>>

PredictNext ==
    Prepare \/ Encode \/ Assemble \/ Coerce \/ Infer \/ Show \/ Return \/ Recall

SpecPredict == PredictInit /\ [][PredictNext]_vars

-----------------------------------------------------------------------------
(* The handler of the button (app.py:484-549) run on records of any shape, *)
(* the required fields absent, empty or zero included.                     *)

CheckRecords ==
    {PutOpt(PutOpt(PutOpt(PutOpt(ScenarioRecord, "brand", b), "productionDate", y),
                   "mileage", m), "enginePower", e) :
        b \in {Absent, VStr(<<>>), VStr(T_TOYOTA)},
        y \in {Absent, VInt(2018)},
        m \in {Absent, VInt(0), VInt(50000)},
        e \in {Absent, VFloat(150, 0)}}

CheckInit ==
    /\ pc = "check"
    /\ files = [model |-> "ok", encoders |-> "ok", features |-> "ok"]
    /\ artifacts \in ArtifactContents
    /\ VALUE_MAPPINGS = VALUE_MAPPINGS_LITERAL
    /\ model_data = load_model_and_encoders(files, artifacts).ret
    /\ args = ScenarioArgs
    /\ car_features \in CheckRecords
    /\ prepared = NoneDict
    /\ input_df = EmptyDict
    /\ raw = 0
    /\ result = NonePrice
    /\ shown = NoShow
    /\ calls = {}
    /\ failed = "none"
    /\ errors = <<>>
    /\ served = 1

CheckNext ==
    CheckRequired \/ Prepare \/ Encode \/ Assemble \/ Coerce \/ Infer \/ Show

SpecCheck == CheckInit /\ [][CheckNext]_vars

-----------------------------------------------------------------------------
(* Properties                                                              *)

\* position of v in classes, counted from 0
CodeOf(classes, v) == CHOOSE c \in 0..(Len(classes) - 1) : classes[c + 1] = v

\* the code expected for the value v of a column whose encoder knows classes
ExpectedCode(classes, v) ==
    IF \E i \in 1..Len(classes) : classes[i] = Str(v)
    THEN CodeOf(classes, Str(v))
    ELSE CodeOf(classes, classes[1])

\* the encoders of the columns of the prepared record
UsedEncoders ==
    {model_data.encoders.val[col] :
        col \in (DOMAIN prepared.val) \cap (DOMAIN model_data.encoders.val)}

\* C1: in predict_car_price every column of the record that has an encoder with
\* known categories is encoded without raising: a value whose text is not a
\* known category gets the code of classes_[0], a known one gets its own code.
C1_UnknownCategoryFallback ==
    /\ (pc = "assemble") =>
          \A col \in (DOMAIN prepared.val) \cap (DOMAIN model_data.encoders.val) :
              input_df.val[col] =
                  VInt(ExpectedCode(model_data.encoders.val[col].classes,
                                   prepared.val[col]))
    /\ (failed = "encoding") =>
          \E enc \in UsedEncoders : ~enc.fitted \/ enc.classes = <<>>

\* an unknown transmission fell back to code 0 while the known brand kept its
\* own code, which is not 0
C1_Witness ==
    /\ pc = "assemble"
    /\ Has(model_data.encoders, "brand")
    /\ Has(model_data.encoders, "vehicleTransmission")
    /\ Has(prepared, "brand")
    /\ Has(prepared, "vehicleTransmission")
    /\ Str(prepared.val["vehicleTransmission"])
           \notin Range(model_data.encoders.val["vehicleTransmission"].classes)
    /\ input_df.val["vehicleTransmission"] = VInt(0)
    /\ Str(prepared.val["brand"]) = T_TOYOTA
    /\ input_df.val["brand"] = VInt(1)

\* the value expected in the schema column f: the record's value, encoded
\* where the column has an encoder, and 0 where the record has no such field
ExpectedEntry(f) ==
    IF ~Has(prepared, f) THEN VInt(0)
    ELSE IF Has(model_data.encoders, f)
    THEN VInt(ExpectedCode(model_data.encoders.val[f].classes, prepared.val[f]))
    ELSE prepared.val[f]

\* v is the number the text value e reads as
NumberReadFrom(v, e) ==
    e.t = "str" /\ ToNumeric(e.s).ok /\ v = ToNumeric(e.s).v

C3_RoundingAndBand ==
    /\ (pc \in {"returned", "done"} /\ ~result.none) =>
          /\ result.price % 1000 = 0
          /\ \A m \in {result.price - 1000, result.price + 1000} :
                 Max(result.price - raw, raw - result.price)
                     <= Max(m - raw, raw - m)
    /\ (pc = "done" /\ shown.kind = "price") =>
          /\ shown.price = result.price
          /\ shown.lower = (IF result.price - 135699 > 0
                            THEN result.price - 135699 ELSE 0)
          /\ shown.upper = result.price + 135699

\* a negative output half-way between two thousands was rounded and shown with
\* a band whose lower bound is clamped to 0
C3_Witness ==
    /\ pc = "done"
    /\ raw < 0
    /\ raw % 1000 = 500
    /\ shown.kind = "price"
    /\ shown.lower = 0
    /\ shown.upper = result.price + 135699

\* the request was submitted and the required-field check has run on it
Checked == pc \in {"prepare", "encode", "assemble", "coerce", "infer", "returned", "done"}

\* the required fields the record does not supply: absent, or the empty text
\* that stands for "no brand"
Unsupplied(cf) ==
    SelectSeq(<<"brand", "productionDate", "mileage", "enginePower">>,
              LAMBDA f : ~Has(cf, f) \/ cf.val[f] = VStr(<<>>))

C5_StartupFailure ==
    (pc # "boot") =>
        /\ (files.model # "ok" \/ files.encoders # "ok") =>
              /\ model_data.none
              /\ pc = "stopped"
              /\ served = 0
              /\ calls = {}
              /\ Len(errors) = 2
              /\ errors[2].kind = "model_unavailable"
              /\ (files.model = "missing") =>
                     (errors[1].kind = "file_not_found"
                          /\ errors[1].about = "models/lightgbm_car_price_model.txt")
              /\ (files.model = "corrupt") => errors[1].kind = "load_error"
              /\ (files.model = "ok" /\ files.encoders = "missing") =>
                     (errors[1].kind = "file_not_found"
                          /\ errors[1].about = "models/label_encoders.pkl")
              /\ (files.model = "ok" /\ files.encoders = "corrupt") =>
                     errors[1].kind = "load_error"
        /\ (files.model = "ok" /\ files.encoders = "ok" /\ files.features = "missing") =>
              /\ ~model_data.none
              /\ pc # "stopped"
              /\ model_data.encoders = artifacts.encoders
              /\ model_data.feature_names =
                     artifacts.encoders.keys \o
                     <<"productionDate", "mileage", "enginePower", "engineDisplacement",
                       "numberOfDoors", "Vladeltsy", "engineDisplacement_num",
                       "description_length", "start_year", "start_month", "start_day">>

\* the model file loaded, the encoder file is missing: the run stopped with
\* that file named
C5_Witness ==
    /\ pc = "stopped"
    /\ files.model = "ok"
    /\ files.encoders = "missing"
    /\ model_data.none
    /\ errors[1].about = "models/label_encoders.pkl"

\* with only the feature-names file missing a price was estimated
C5_FallbackServes ==
    /\ pc = "done"
    /\ files = [model |-> "ok", encoders |-> "ok", features |-> "missing"]
    /\ shown.kind = "price"

\* C6: no step of any sequence of predict_car_price calls, successful or
\* failing at any stage, changes VALUE_MAPPINGS, the encoder table, the feature
\* schema or the model, and none changes the record the caller passed in.
C6_ArtifactsAndCallerUnchanged ==
    [][ /\ VALUE_MAPPINGS' = VALUE_MAPPINGS
        /\ model_data' = model_data
        /\ artifacts' = artifacts
        /\ (pc \notin {"done", "idle"}) => car_features' = car_features ]_vars

\* a second call failed at encoding after preparation had added fields to its
\* working record; the caller's record has none of them
C6_Witness ==
    /\ pc = "done"
    /\ served = 2
    /\ failed = "encoding"
    /\ Has(prepared, "engineDisplacement_num")
    /\ Has(prepared, "vehicleConfiguration")
    /\ ~Has(car_features, "engineDisplacement_num")
    /\ ~Has(car_features, "vehicleConfiguration")
    /\ VALUE_MAPPINGS = VALUE_MAPPINGS_LITERAL
    /\ model_data.encoders = artifacts.encoders

\* t is digits, optionally followed by a point and further digits
IsDecimalText(t) ==
    \E k \in 1..Len(t) :
        /\ \A i \in 1..k : IsDigit(t[i])
        /\ k = Len(t) \/ (t[k + 1] = 46 /\ \A i \in (k + 2)..Len(t) : IsDigit(t[i]))

\* the first decimal number in s, which holds a digit: the longest decimal text
\* that starts at the first digit
FirstNumberText(s) ==
    LET i == CHOOSE a \in 1..Len(s) : IsDigit(s[a]) /\ \A b \in 1..(a - 1) : ~IsDigit(s[b])
        e == CHOOSE a \in i..Len(s) :
                 /\ IsDecimalText(SubSeq(s, i, a))
                 /\ \A b \in (a + 1)..Len(s) : ~IsDecimalText(SubSeq(s, i, b))
    IN  SubSeq(s, i, e)

\* the number a decimal text denotes
DecimalValue(t) ==
    LET point == {k \in 1..Len(t) : t[k] = 46}
        frac == IF point = {} THEN 0 ELSE Len(t) - (CHOOSE k \in point : TRUE)
    IN  VFloat(NatOfDigits(SelectSeq(t, IsDigit)), frac)

\* C7: for a record with an engineDisplacement value, engineDisplacement_num is
\* the first decimal number in the value's text; without a number in the text
\* it is the numeric conversion of the whole text; where that conversion fails
\* it is exactly 2.0, and the request does not fail on it.
C7_DisplacementFallback ==
    (pc \notin {"prepare", "idle"} /\ Has(car_features, "engineDisplacement")) =>
        LET s == Str(car_features.val["engineDisplacement"])
        IN  /\ (~prepared.none) =>
                  /\ Has(prepared, "engineDisplacement_num")
                  /\ prepared.val["engineDisplacement_num"] =
                        (IF \E i \in 1..Len(s) : IsDigit(s[i])
                         THEN DecimalValue(FirstNumberText(s))
                         ELSE IF FloatOfWord(s).ok THEN FloatOfWord(s).v
                         ELSE VFloat(2, 0))
            /\ (prepared.none) =>
                  \E f \in {"bodyType", "brand"} :
                      Has(car_features, f) /\ car_features.val[f].t # "str"

\* "LTR" holds no number and converts to none: 2.0 was set and the request went
\* on to a price
C7_Witness ==
    /\ pc = "done"
    /\ Has(car_features, "engineDisplacement")
    /\ car_features.val["engineDisplacement"] = VStr(T_LTR)
    /\ ~prepared.none
    /\ prepared.val["engineDisplacement_num"] = VFloat(2, 0)
    /\ shown.kind = "price"

\* C8: vehicleConfiguration is the underscore join of the body type with spaces
\* replaced by underscores and upper-cased, the canonical transmission token and
\* the engine displacement; for body type "Седан", transmission
\* "автоматическая" and engine 2.0 it is "SEDAN_AUTOMATIC_2.0".
C8_VehicleConfiguration ==
    (/\ pc \notin {"prepare", "idle"}
     /\ ~prepared.none
     /\ Has(car_features, "bodyType")
     /\ Has(car_features, "vehicleTransmission")
     /\ Has(car_features, "engineDisplacement")) =>
        /\ prepared.val["vehicleConfiguration"] =
               VStr(Upper(ReplaceChar(car_features.val["bodyType"].s, 32, 95))
                    \o <<95>> \o Str(prepared.val["vehicleTransmission"])
                    \o <<95>> \o Str(car_features.val["engineDisplacement"]))
        /\ (/\ car_features.val["bodyType"] = VStr(T_Sedan)
            /\ car_features.val["vehicleTransmission"] = VStr(T_avtomaticheskaya)
            /\ car_features.val["engineDisplacement"] = VFloat(2, 0)) =>
               prepared.val["vehicleConfiguration"] = VStr(T_SEDAN_latin_AUTOMATIC_2_0)

\* C9: for a request that passed the required-field check a price is shown
\* exactly when no stage failed, and the failure is shown exactly when some
\* stage failed.
C9_PriceIffStagesSucceed ==
    (pc = "done" /\ "predict_car_price" \in calls) =>
        /\ (shown.kind = "price") <=> (failed = "none")
        /\ (shown.kind = "failure") <=> (failed # "none")

\* C10: a record built from form values (a brand chosen, year 1990..2024,
\* mileage 0..1000000, power 50..500) passes the required-field check and
\* reaches predict_car_price, and none of its values is reported missing.
C10_FormRecordAccepted ==
    (/\ Checked
     /\ args.brand \notin {<<>>, T_Vyberite_marku}
     /\ args.year \in 1990..2024
     /\ args.mileage \in 0..1000000
     /\ args.engine_power \in 50..500) =>
        /\ "predict_car_price" \in calls
        /\ \A i \in 1..Len(errors) : errors[i].kind # "missing_fields"

\* C11: when predict_car_price reaches the model call, every schema feature
\* that has an encoder holds an integer from 0 to the number of the encoder's
\* known categories minus 1, whether its value was known, unknown or the
\* feature was absent from the record and filled with 0.
C11_CodesInRange ==
    (pc = "infer") =>
        \A f \in Range(model_data.feature_names) \cap DOMAIN model_data.encoders.val :
            /\ input_df.val[f].t = "int"
            /\ input_df.val[f].n >= 0
            /\ input_df.val[f].n <= Len(model_data.encoders.val[f].classes) - 1

\* at the model call of one request: the known brand has its code 1, the
\* unknown transmission the fallback code 0, and bodyType, absent from the
\* record, the filled 0; all three have encoders
C11_Witness ==
    /\ pc = "infer"
    /\ {"brand", "vehicleTransmission", "bodyType"}
           \subseteq (Range(model_data.feature_names) \cap DOMAIN model_data.encoders.val)
    /\ Has(prepared, "brand")
    /\ Str(prepared.val["brand"]) = T_TOYOTA
    /\ input_df.val["brand"] = VInt(1)
    /\ Has(prepared, "vehicleTransmission")
    /\ Str(prepared.val["vehicleTransmission"])
           \notin Range(model_data.encoders.val["vehicleTransmission"].classes)
    /\ input_df.val["vehicleTransmission"] = VInt(0)
    /\ ~Has(prepared, "bodyType")
    /\ input_df.val["bodyType"] = VInt(0)

====
